---------------------------- MODULE Spec2Model ----------------------------
(***************************************************************************)
(* A model of the COMP 4300 assignment 1 program (namespace a1): the       *)
(* configuration loader, the shape/entity value types, the bounce step     *)
(* and the frame loop of main().                                           *)
(*                                                                         *)
(* Numbers.  The program's floats are modelled as exact integers; the one  *)
(* place that leaves the integers, Rectangle::aabb's division by two, is   *)
(* kept exact by carrying every bounding-box quantity in half pixels       *)
(* (twice its value).  Rounding and float overflow are outside the model.  *)
(*                                                                         *)
(* Tokens.  The input file is a sequence of whitespace-separated tokens.   *)
(* A token is either a word that no numeric extraction accepts any         *)
(* character of (and that does not open with a double quote), or a decimal *)
(* integer literal that both the int and the float extraction accept in    *)
(* full.                                                                   *)
(***************************************************************************)
EXTENDS Integers, Sequences, FiniteSets, TLC

VARIABLES
    file,            \* the input file: its description, fixed for a run
    input,           \* std::ifstream input_file: remaining tokens and state bits
    config,          \* a1::Config
    heap,            \* the free store: address -> Shape object
    ppc,             \* load_config's position
    last,            \* the keyword loop's latest iteration (history)
    entities,        \* main's std::vector<a1::Entity> entities
    ui,              \* main's a1::Input input
    previous_input,  \* main's a1::Input previous_input
    pc,              \* main's position within the frame
    frame,           \* the number of frames main's loop has completed
    drawn,           \* the draw calls of the latest render pass (history)
    event,           \* what the user did in the latest control-panel pass (history)
    arg,             \* arguments of a single call of aabb / move
    out              \* the result of that call

vars == <<file, input, config, heap, ppc, last, entities, ui, previous_input, pc, frame,
          drawn, event, arg, out>>

parse_vars == <<file, input, config, ppc, last>>
frame_vars == <<entities, ui, previous_input, pc, frame, drawn, event>>
call_vars  == <<arg, out>>

-----------------------------------------------------------------------------
(* Bounds *)

\* The most records (lines) an input file holds.
MaxLines == 2

\* The largest scale factor an entity is given.
MaxScale == 2

\* The most frames main's loop runs before the window is closed.
MaxFrames == 3

-----------------------------------------------------------------------------
(* Value types *)

Window0 == [caption |-> "", width |-> 1280, height |-> 800]

Color0 == [r |-> 0, g |-> 0, b |-> 0, a |-> 0]

FontAsset0 == [file |-> "", size |-> 12, color |-> [r |-> 1, g |-> 1, b |-> 1, a |-> 1]]

\* The null pointer of std::unique_ptr<Shape>.
Null == 0

Entity0 ==
    [name |-> "", position |-> [x |-> 0, y |-> 0], velocity |-> [x |-> 0, y |-> 0],
     shape |-> Null, scale |-> 1, color |-> Color0, is_active |-> FALSE]

Config0 == [window |-> Window0, font_asset |-> FontAsset0, entity_templates |-> <<>>]

CircleShape(radius) == [kind |-> "Circle", radius |-> radius]

RectangleShape(width, height) == [kind |-> "Rectangle", width |-> width, height |-> height]

\* operator new: the lowest address not in use.
NewAddr(h) == CHOOSE a \in 1..(Cardinality(DOMAIN h) + 1) : a \notin DOMAIN h

\* The free store with one more object.
Alloc(h, obj) == [a \in DOMAIN h \cup {NewAddr(h)} |-> IF a \in DOMAIN h THEN h[a] ELSE obj]

\* The free store without the objects at the addresses of S.
Free(h, S) == [a \in DOMAIN h \ S |-> h[a]]

EmptyHeap == [a \in {} |-> CircleShape(0)]

-----------------------------------------------------------------------------
(* Input files *)

\* A word token and an integer-literal token.
Txt(s) == [k |-> "txt", s |-> s, n |-> 0]
Num(n) == [k |-> "num", s |-> "", n |-> n]

\* The characters of a token, as a string extraction stores them.
Lexeme(tok) == IF tok.k = "num" THEN ToString(tok.n) ELSE tok.s

\* The record keywords operator>> dispatches on.
Keywords == {"Window", "Font", "Circle", "Rectangle"}

\* What a line of a file can be: a record of one of the four types, a stray
\* word that is no keyword, or a stray number.
Kinds == Keywords \cup {"Foo", "Number"}

\* The number of fields that follow the keyword of a record.
FieldCount(kind) ==
    CASE kind = "Window"    -> 3
      [] kind = "Font"      -> 5
      [] kind = "Circle"    -> 9
      [] kind = "Rectangle" -> 10
      [] OTHER              -> 0

\* The number written in field p of line i: every field of a file differs.
Val(i, p) == 20 * i + p

\* The word written in the text field (the first) of line i.
Word(i, kind) ==
    CASE kind = "Window" -> "cap" \o ToString(i)
      [] kind = "Font"   -> "font" \o ToString(i)
      [] OTHER           -> "n" \o ToString(i)

\* Line i as written when it is well formed.
LineTokens(i, kind) ==
    CASE kind = "Foo"    -> <<Txt("Foo")>>
      [] kind = "Number" -> <<Num(Val(i, 0))>>
      [] OTHER ->
            <<Txt(kind)>> \o
            [p \in 1..FieldCount(kind) |-> IF p = 1 THEN Txt(Word(i, kind)) ELSE Num(Val(i, p))]

\* A file has at most one defect: field pos of line `line` is left out
\* ("Drop"), is a word where a number belongs ("Bad"), or the file ends just
\* before it ("Cut", on the last line).
NoDefect == [line |-> 0, type |-> "none", pos |-> 0]

Defects(kinds) ==
    {NoDefect} \cup
    {[line |-> i, type |-> "Drop", pos |-> p] :
        i \in 1..Len(kinds), p \in 1..10} \cup
    {[line |-> i, type |-> "Bad", pos |-> p] :
        i \in 1..Len(kinds), p \in 2..10} \cup
    {[line |-> i, type |-> "Cut", pos |-> p] :
        i \in {Len(kinds)} \ {0}, p \in 1..10}

RemoveAt(s, j) == SubSeq(s, 1, j - 1) \o SubSeq(s, j + 1, Len(s))

\* Line i of the file as written, its defect included.
WrittenLine(f, i) ==
    LET toks == LineTokens(i, f.kinds[i])
        d    == f.defect
    IN  IF d.line # i THEN toks
        ELSE CASE d.type = "Drop" -> RemoveAt(toks, d.pos + 1)
               [] d.type = "Bad"  -> [toks EXCEPT ![d.pos + 1] = Txt("bad")]
               [] d.type = "Cut"  -> SubSeq(toks, 1, d.pos)
               [] OTHER           -> toks

RECURSIVE WrittenFrom(_, _)
WrittenFrom(f, i) ==
    IF i > Len(f.kinds) THEN <<>> ELSE WrittenLine(f, i) \o WrittenFrom(f, i + 1)

\* The tokens of the whole file.
FileTokens(f) == WrittenFrom(f, 1)

RECURSIVE SeqsUpTo(_, _)
SeqsUpTo(S, n) ==
    IF n = 0 THEN {<<>>}
    ELSE LET shorter == SeqsUpTo(S, n - 1)
         IN  shorter \cup {Append(s, x) : s \in {t \in shorter : Len(t) = n - 1}, x \in S}

\* The files of the model: every sequence of at most MaxLines lines, with at
\* most one defect, with or without white space after the last token
\* (trail); and one file that cannot be opened.
Files ==
    {[kinds |-> ks, defect |-> d, trail |-> t, opened |-> TRUE] :
        ks \in SeqsUpTo(Kinds, MaxLines), d \in {NoDefect}, t \in BOOLEAN} \cup
    UNION {{[kinds |-> ks, defect |-> d, trail |-> t, opened |-> TRUE] :
                d \in {e \in Defects(ks) : e.type # "none" /\ e.pos <= FieldCount(ks[e.line])},
                t \in BOOLEAN} :
            ks \in SeqsUpTo(Kinds, MaxLines)} \cup
    {[kinds |-> <<>>, defect |-> NoDefect, trail |-> FALSE, opened |-> FALSE]}

-----------------------------------------------------------------------------
(* std::istream *)

\* The stream of a file that was opened on the tokens toks.
OpenStream(toks, trail) == [rest |-> toks, fail |-> FALSE, eof |-> FALSE, trail |-> trail]

\* The stream of a file that could not be opened: failbit is set.
ClosedStream == [rest |-> <<>>, fail |-> TRUE, eof |-> FALSE, trail |-> FALSE]

\* std::ios::good()
Good(st) == ~st.fail /\ ~st.eof

\* operator bool of the stream: !fail()
StreamOk(st) == ~st.fail

\* The stream once its first token is taken: reading the file's last token
\* up to the end of the file, with no white space after it, sets eofbit.
Consume(st) ==
    [st EXCEPT !.rest = Tail(st.rest), !.eof = (Len(st.rest) = 1 /\ ~st.trail)]

\* Sentry, were the end of the input to set failbit alone.
SentryFailOnly(st) ==
    IF ~Good(st) THEN [st |-> [st EXCEPT !.fail = TRUE], ok |-> FALSE]
    ELSE IF st.rest = <<>> THEN [st |-> [st EXCEPT !.fail = TRUE], ok |-> FALSE]
    ELSE [st |-> st, ok |-> TRUE]

\* The sentry of a formatted extraction: a stream that is not good fails, and
\* so does one in which only white space is left (which also sets eofbit).
\* The result is the stream, and whether the extraction goes on.
Sentry(st) ==
    IF ~Good(st) THEN [st |-> [st EXCEPT !.fail = TRUE], ok |-> FALSE]
    ELSE IF st.rest = <<>> THEN [st |-> [st EXCEPT !.fail = TRUE, !.eof = TRUE], ok |-> FALSE]
    ELSE [st |-> st, ok |-> TRUE]

\* input >> std::string (and >> std::filesystem::path): the next token,
\* whatever it is.  `set` tells whether the target is assigned.
ExtractString(st) ==
    LET s == Sentry(st)
    IN  IF ~s.ok THEN [st |-> s.st, set |-> FALSE, v |-> ""]
        ELSE [st |-> Consume(st), set |-> TRUE, v |-> Lexeme(Head(st.rest))]

\* ExtractNumber, were a word taken from the stream and read as zero.
ExtractNumberLenient(st) ==
    LET s == Sentry(st)
    IN  IF ~s.ok THEN [st |-> s.st, set |-> FALSE, v |-> 0]
        ELSE IF Head(st.rest).k = "num"
             THEN [st |-> Consume(st), set |-> TRUE, v |-> Head(st.rest).n]
             ELSE [st |-> Consume(st), set |-> TRUE, v |-> 0]

\* input >> int and input >> float: a number token is taken and stored; a
\* word sets failbit, stores zero and is left in the stream; a stream that
\* fails its sentry stores nothing.
ExtractNumber(st) ==
    LET s == Sentry(st)
    IN  IF ~s.ok THEN [st |-> s.st, set |-> FALSE, v |-> 0]
        ELSE IF Head(st.rest).k = "num"
             THEN [st |-> Consume(st), set |-> TRUE, v |-> Head(st.rest).n]
             ELSE [st |-> [st EXCEPT !.fail = TRUE], set |-> TRUE, v |-> 0]

\* The value a target holds after an extraction.
Stored(old, r) == IF r.set THEN r.v ELSE old

-----------------------------------------------------------------------------
(* Entity: the special member functions *)

\* Entity(Entity&& other): every member but scale is taken from other; scale
\* is not in the initializer list and gets its default member initializer.
MoveConstructed(other) ==
    [name |-> other.name, position |-> other.position, velocity |-> other.velocity,
     shape |-> other.shape, scale |-> 1, color |-> other.color,
     is_active |-> other.is_active]

\* PushBackMoved, were the new element put in front.
PushFrontMoved(vec, e) ==
    <<MoveConstructed(e)>> \o [i \in DOMAIN vec |-> MoveConstructed(vec[i])]

\* std::vector<Entity>::push_back(Entity&&): the new element is move
\* constructed, and so is every element the vector relocates when it grows.
PushBackMoved(vec, e) ==
    Append([i \in DOMAIN vec |-> MoveConstructed(vec[i])], MoveConstructed(e))

-----------------------------------------------------------------------------
(* The configuration loader *)

\* ReadWindow, were a window that has a caption left as it is.
ReadWindowKeepFirst(st, w) ==
    LET a == ExtractString(st)
        b == ExtractNumber(a.st)
        c == ExtractNumber(b.st)
    IN  [st |-> c.st,
         window |-> IF w.caption # "" THEN w
                    ELSE [caption |-> Stored(w.caption, a),
                          width   |-> Stored(w.width, b),
                          height  |-> Stored(w.height, c)]]

\* ReadWindow, were a record that fails part-way to leave the window as it was.
ReadWindowAllOrNothing(st, w) ==
    LET a == ExtractString(st)
        b == ExtractNumber(a.st)
        c == ExtractNumber(b.st)
    IN  [st |-> c.st,
         window |-> IF ~StreamOk(c.st) THEN w
                    ELSE [caption |-> Stored(w.caption, a),
                          width   |-> Stored(w.width, b),
                          height  |-> Stored(w.height, c)]]

\* The Window branch of operator>>: caption, width, height, in turn.
ReadWindow(st, w) ==
    LET a == ExtractString(st)
        b == ExtractNumber(a.st)
        c == ExtractNumber(b.st)
    IN  [st |-> c.st,
         window |-> [caption |-> Stored(w.caption, a),
                     width   |-> Stored(w.width, b),
                     height  |-> Stored(w.height, c)]]

\* The Font branch of operator>>: file, size, red, green, blue; alpha is set
\* whatever the stream's state.
ReadFont(st, f) ==
    LET a == ExtractString(st)
        b == ExtractNumber(a.st)
        c == ExtractNumber(b.st)
        d == ExtractNumber(c.st)
        e == ExtractNumber(d.st)
    IN  [st |-> e.st,
         font_asset |-> [file  |-> Stored(f.file, a),
                         size  |-> Stored(f.size, b),
                         color |-> [r |-> Stored(f.color.r, c),
                                    g |-> Stored(f.color.g, d),
                                    b |-> Stored(f.color.b, e),
                                    a |-> 1]]]

read_common_components(st, entity) ==
    LET a == ExtractString(st)
        b == ExtractNumber(a.st)
        c == ExtractNumber(b.st)
        d == ExtractNumber(c.st)
        e == ExtractNumber(d.st)
        f == ExtractNumber(e.st)
        g == ExtractNumber(f.st)
        h == ExtractNumber(g.st)
    IN  [st |-> h.st,
         entity |-> [entity EXCEPT
             !.name      = Stored(entity.name, a),
             !.position  = [x |-> Stored(entity.position.x, b),
                            y |-> Stored(entity.position.y, c)],
             !.velocity  = [x |-> Stored(entity.velocity.x, d),
                            y |-> Stored(entity.velocity.y, e)],
             !.color     = [r |-> Stored(entity.color.r, f),
                            g |-> Stored(entity.color.g, g),
                            b |-> Stored(entity.color.b, h),
                            a |-> 1],
             !.is_active = TRUE]]

\* read_circle_entity, were the entity handed back without its shape.
read_circle_entityShapeless(st, entity, h) ==
    LET c == read_common_components(st, entity)
        r == ExtractNumber(c.st)
    IN  [st |-> IF StreamOk(c.st) THEN r.st ELSE c.st, heap |-> h, entity |-> c.entity]

\* The radius is read only if the common components were; the shape is made
\* only if both succeeded.
read_circle_entity(st, entity, h) ==
    LET c == read_common_components(st, entity)
        r == ExtractNumber(c.st)
    IN  IF StreamOk(c.st) /\ StreamOk(r.st)
        THEN [st |-> r.st, heap |-> Alloc(h, CircleShape(r.v)),
              entity |-> [c.entity EXCEPT !.shape = NewAddr(h)]]
        ELSE [st |-> IF StreamOk(c.st) THEN r.st ELSE c.st, heap |-> h,
              entity |-> c.entity]

read_rectangle_entity(st, entity, h) ==
    LET c == read_common_components(st, entity)
        w == ExtractNumber(c.st)
        t == ExtractNumber(w.st)
    IN  IF StreamOk(c.st) /\ StreamOk(t.st)
        THEN [st |-> t.st, heap |-> Alloc(h, RectangleShape(w.v, t.v)),
              entity |-> [c.entity EXCEPT !.shape = NewAddr(h)]]
        ELSE [st |-> IF StreamOk(c.st) THEN t.st ELSE c.st, heap |-> h,
              entity |-> c.entity]

\* AppendIfRead, were the entity appended whatever the stream's state.
AppendAlways(cfg, r) ==
    [cfg EXCEPT !.entity_templates = PushBackMoved(cfg.entity_templates, r.entity)]

\* The Circle and Rectangle branches of operator>>: the entity read is
\* appended only if the stream has not failed.
AppendIfRead(cfg, r) ==
    IF StreamOk(r.st)
    THEN [cfg EXCEPT !.entity_templates = PushBackMoved(cfg.entity_templates, r.entity)]
    ELSE cfg

\* LoadFails, were the end of the input not told from a failure.
LoadFailsOnAnyFailure(st) == ~StreamOk(st)

\* load_config's test after operator>> has returned.
LoadFails(st) == ~StreamOk(st) /\ ~st.eof

Last0 == [kw |-> "", cfg |-> Config0, rest |-> <<>>]

\* The keyword extraction that heads an iteration of operator>>'s loop.
KeywordRead == ExtractString(input)

\* What an iteration records of itself.
Iteration == [kw |-> KeywordRead.v, cfg |-> config, rest |-> input.rest]

\* auto input_file = std::ifstream{ path }; a1::Config config;
Open ==
    /\ ppc = "open"
    /\ input' = IF file.opened THEN OpenStream(FileTokens(file), file.trail) ELSE ClosedStream
    /\ config' = Config0
    /\ ppc' = "loop"
    /\ UNCHANGED <<file, heap, last, frame_vars, call_vars>>

LoopWindow ==
    /\ ppc = "loop"
    /\ StreamOk(KeywordRead.st)
    /\ KeywordRead.v = "Window"
    /\ LET r == ReadWindow(KeywordRead.st, config.window)
       IN  /\ input' = r.st
           /\ config' = [config EXCEPT !.window = r.window]
    /\ last' = Iteration
    /\ UNCHANGED <<file, heap, ppc, frame_vars, call_vars>>

LoopFont ==
    /\ ppc = "loop"
    /\ StreamOk(KeywordRead.st)
    /\ KeywordRead.v = "Font"
    /\ LET r == ReadFont(KeywordRead.st, config.font_asset)
       IN  /\ input' = r.st
           /\ config' = [config EXCEPT !.font_asset = r.font_asset]
    /\ last' = Iteration
    /\ UNCHANGED <<file, heap, ppc, frame_vars, call_vars>>

LoopCircle ==
    /\ ppc = "loop"
    /\ StreamOk(KeywordRead.st)
    /\ KeywordRead.v = "Circle"
    /\ LET r == read_circle_entity(KeywordRead.st, Entity0, heap)
       IN  /\ input' = r.st
           /\ heap' = r.heap
           /\ config' = AppendIfRead(config, r)
    /\ last' = Iteration
    /\ UNCHANGED <<file, ppc, frame_vars, call_vars>>

LoopRectangle ==
    /\ ppc = "loop"
    /\ StreamOk(KeywordRead.st)
    /\ KeywordRead.v = "Rectangle"
    /\ LET r == read_rectangle_entity(KeywordRead.st, Entity0, heap)
       IN  /\ input' = r.st
           /\ heap' = r.heap
           /\ config' = AppendIfRead(config, r)
    /\ last' = Iteration
    /\ UNCHANGED <<file, ppc, frame_vars, call_vars>>

\* LoopOther, were an unknown keyword an error.
LoopOtherFails ==
    /\ ppc = "loop"
    /\ StreamOk(KeywordRead.st)
    /\ KeywordRead.v \notin Keywords
    /\ input' = [KeywordRead.st EXCEPT !.fail = TRUE]
    /\ last' = Iteration
    /\ UNCHANGED <<file, config, heap, ppc, frame_vars, call_vars>>

\* LoopOther, were the unknown keyword put back into the stream.
LoopOtherPutsBack ==
    /\ ppc = "loop"
    /\ StreamOk(KeywordRead.st)
    /\ KeywordRead.v \notin Keywords
    /\ input' = input
    /\ last' = Iteration
    /\ UNCHANGED <<file, config, heap, ppc, frame_vars, call_vars>>

\* No branch matches: the token read as the keyword is all that is taken.
LoopOther ==
    /\ ppc = "loop"
    /\ StreamOk(KeywordRead.st)
    /\ KeywordRead.v \notin Keywords
    /\ input' = KeywordRead.st
    /\ last' = Iteration
    /\ UNCHANGED <<file, config, heap, ppc, frame_vars, call_vars>>

\* while( input >> s ) is false: operator>> returns.
LoopExit ==
    /\ ppc = "loop"
    /\ ~StreamOk(KeywordRead.st)
    /\ input' = KeywordRead.st
    /\ ppc' = "check"
    /\ UNCHANGED <<file, config, heap, last, frame_vars, call_vars>>

\* The exception unwinds load_config: its config and the shapes it owns die.
LoadThrow ==
    /\ ppc = "check"
    /\ LoadFails(input)
    /\ ppc' = "thrown"
    /\ config' = Config0
    /\ heap' = EmptyHeap
    /\ UNCHANGED <<file, input, last, frame_vars, call_vars>>

LoadReturn ==
    /\ ppc = "check"
    /\ ~LoadFails(input)
    /\ ppc' = "returned"
    /\ UNCHANGED <<file, input, config, heap, last, frame_vars, call_vars>>

\* a1::Input{}
Input0 ==
    [draw_shapes_enabled |-> TRUE, draw_text_enabled |-> TRUE, simulate_enabled |-> TRUE,
     selected_index |-> 0, is_active |-> TRUE, scale |-> 1,
     velocity |-> <<0, 0>>, color |-> <<1, 1, 1>>, name |-> ""]

\* Nothing has been done in the control panel.
NoEvent == [type |-> "none", arg |-> 0]

InitParse ==
    /\ file \in Files
    /\ input = ClosedStream
    /\ config = Config0
    /\ heap = EmptyHeap
    /\ ppc = "open"
    /\ last = Last0
    /\ entities = <<>>
    /\ ui = Input0
    /\ previous_input = Input0
    /\ pc = "off"
    /\ frame = 0
    /\ drawn = <<>>
    /\ event = NoEvent
    /\ arg = <<>>
    /\ out = <<>>

NextParse ==
    \/ Open
    \/ LoopWindow
    \/ LoopFont
    \/ LoopCircle
    \/ LoopRectangle
    \/ LoopOther
    \/ LoopExit
    \/ LoadThrow
    \/ LoadReturn

SpecParse == InitParse /\ [][NextParse]_vars

-----------------------------------------------------------------------------
(* Shapes and the bounce step *)

\* An AABB is carried in half pixels: each of x, y, width and height is
\* twice the value the program computes, which keeps width * scale / 2 exact.
\* Circle::aabb
CircleAabb(shape, position, scale) ==
    [x      |-> 2 * position.x - 2 * (shape.radius * scale),
     y      |-> 2 * position.y - 2 * (shape.radius * scale),
     width  |-> 2 * (2 * shape.radius * scale),
     height |-> 2 * (2 * shape.radius * scale)]

\* RectangleAabb, were the corner a whole width and height from the center.
RectangleAabbWholeOffset(shape, position, scale) ==
    [x      |-> 2 * position.x - 2 * (shape.width * scale),
     y      |-> 2 * position.y - 2 * (shape.height * scale),
     width  |-> 2 * (shape.width * scale),
     height |-> 2 * (shape.height * scale)]

\* Rectangle::aabb
RectangleAabb(shape, position, scale) ==
    [x      |-> 2 * position.x - shape.width * scale,
     y      |-> 2 * position.y - shape.height * scale,
     width  |-> 2 * (shape.width * scale),
     height |-> 2 * (shape.height * scale)]

\* The virtual call shape->aabb(position, scale).
aabb(shape, position, scale) ==
    IF shape.kind = "Circle" THEN CircleAabb(shape, position, scale)
    ELSE RectangleAabb(shape, position, scale)

\* move, were the final step taken from the tentative position.
moveFromTentative(entity, window, h) ==
    LET next_position == [x |-> entity.position.x + entity.velocity.x,
                          y |-> entity.position.y + entity.velocity.y]
        box == aabb(h[entity.shape], next_position, entity.scale)
        vx  == IF box.x < 0 \/ box.x + box.width > 2 * window.width
               THEN -entity.velocity.x ELSE entity.velocity.x
        vy  == IF box.y < 0 \/ box.y + box.height > 2 * window.height
               THEN -entity.velocity.y ELSE entity.velocity.y
    IN  [entity EXCEPT
            !.velocity = [x |-> vx, y |-> vy],
            !.position = [x |-> next_position.x + vx, y |-> next_position.y + vy]]

\* move, were a box that touches an edge taken to have left the window.
moveNonStrict(entity, window, h) ==
    LET next_position == [x |-> entity.position.x + entity.velocity.x,
                          y |-> entity.position.y + entity.velocity.y]
        box == aabb(h[entity.shape], next_position, entity.scale)
        vx  == IF box.x <= 0 \/ box.x + box.width >= 2 * window.width
               THEN -entity.velocity.x ELSE entity.velocity.x
        vy  == IF box.y <= 0 \/ box.y + box.height >= 2 * window.height
               THEN -entity.velocity.y ELSE entity.velocity.y
    IN  [entity EXCEPT
            !.velocity = [x |-> vx, y |-> vy],
            !.position = [x |-> entity.position.x + vx, y |-> entity.position.y + vy]]

\* move, were an entity that would leave the window stopped on that axis.
moveStopsAtEdge(entity, window, h) ==
    LET next_position == [x |-> entity.position.x + entity.velocity.x,
                          y |-> entity.position.y + entity.velocity.y]
        box == aabb(h[entity.shape], next_position, entity.scale)
        vx  == IF box.x < 0 \/ box.x + box.width > 2 * window.width
               THEN 0 ELSE entity.velocity.x
        vy  == IF box.y < 0 \/ box.y + box.height > 2 * window.height
               THEN 0 ELSE entity.velocity.y
    IN  [entity EXCEPT
            !.velocity = [x |-> vx, y |-> vy],
            !.position = [x |-> entity.position.x + vx, y |-> entity.position.y + vy]]

\* a1::move, on an entity whose shape pointer refers into the free store h.
move(entity, window, h) ==
    LET next_position == [x |-> entity.position.x + entity.velocity.x,
                          y |-> entity.position.y + entity.velocity.y]
        box == aabb(h[entity.shape], next_position, entity.scale)
        vx  == IF box.x < 0 \/ box.x + box.width > 2 * window.width
               THEN -entity.velocity.x ELSE entity.velocity.x
        vy  == IF box.y < 0 \/ box.y + box.height > 2 * window.height
               THEN -entity.velocity.y ELSE entity.velocity.y
    IN  [entity EXCEPT
            !.velocity = [x |-> vx, y |-> vy],
            !.position = [x |-> entity.position.x + vx, y |-> entity.position.y + vy]]

-----------------------------------------------------------------------------
(* Single calls of aabb and move, on arguments drawn from bounded sets *)

CallPositions == {5, 13, 50, 100, 187, 197}

CallVelocities == {-3, 0, 1, 3}

CallShapes == {CircleShape(1), CircleShape(10), RectangleShape(3, 20), RectangleShape(20, 5)}

CallWindows == {[caption |-> "w", width |-> 200, height |-> 200],
                [caption |-> "w", width |-> 200, height |-> 100]}

\* The free store of a call: the one shape its entity owns.
CallHeap(shape) == [a \in {1} |-> shape]

InitCall ==
    /\ \E px \in CallPositions, py \in CallPositions,
          vx \in CallVelocities, vy \in CallVelocities,
          sc \in 1..MaxScale, w \in CallWindows :
            arg = [entity |-> [Entity0 EXCEPT !.name = "e",
                                              !.position = [x |-> px, y |-> py],
                                              !.velocity = [x |-> vx, y |-> vy],
                                              !.shape = 1,
                                              !.scale = sc,
                                              !.color = [r |-> 1, g |-> 0, b |-> 0, a |-> 1],
                                              !.is_active = TRUE],
                   window |-> w]
    /\ heap \in {CallHeap(sh) : sh \in CallShapes}
    /\ out = [op |-> "none"]
    /\ file = [kinds |-> <<>>, defect |-> NoDefect, trail |-> FALSE, opened |-> FALSE]
    /\ input = ClosedStream
    /\ config = Config0
    /\ ppc = "off"
    /\ last = Last0
    /\ entities = <<>>
    /\ ui = Input0
    /\ previous_input = Input0
    /\ pc = "off"
    /\ frame = 0
    /\ drawn = <<>>
    /\ event = NoEvent

\* entity.shape->aabb(entity.position, entity.scale)
CallAabb ==
    /\ out.op = "none"
    /\ out' = [op |-> "aabb",
               box |-> aabb(heap[arg.entity.shape], arg.entity.position, arg.entity.scale)]
    /\ UNCHANGED <<arg, heap, parse_vars, frame_vars>>

\* move(entity, window)
CallMove ==
    /\ out.op = "none"
    /\ out' = [op |-> "move", entity |-> move(arg.entity, arg.window, heap)]
    /\ UNCHANGED <<arg, heap, parse_vars, frame_vars>>

NextCall ==
    \/ CallAabb
    \/ CallMove

SpecMove == InitCall /\ [][NextCall]_vars

-----------------------------------------------------------------------------
(* main: start-up and the frame loop *)

\* CopyConstruct, were the shape pointer copied and not the shape.
CopyConstructShallow(h, other) ==
    [heap   |-> h,
     entity |-> [name |-> other.name, position |-> other.position,
                 velocity |-> other.velocity, shape |-> other.shape, scale |-> 1,
                 color |-> other.color, is_active |-> other.is_active]]

\* Entity(const Entity& other): the shape is cloned into a new object; scale
\* is not in the initializer list and gets its default member initializer.
CopyConstruct(h, other) ==
    [heap   |-> Alloc(h, h[other.shape]),
     entity |-> [name |-> other.name, position |-> other.position,
                 velocity |-> other.velocity, shape |-> NewAddr(h), scale |-> 1,
                 color |-> other.color, is_active |-> other.is_active]]

\* std::copy(src.begin(), src.end(), std::back_inserter(vec)) from element i
\* on; vec has the capacity it needs, so no element is relocated.
RECURSIVE CopyInto(_, _, _, _)
CopyInto(h, vec, src, i) ==
    IF i > Len(src) THEN [heap |-> h, vec |-> vec]
    ELSE LET c == CopyConstruct(h, src[i])
         IN  CopyInto(c.heap, Append(vec, c.entity), src, i + 1)

\* entities.clear(): every element is destroyed, and with it the shape its
\* unique_ptr owns.
Cleared(h, vec) == Free(h, {vec[i].shape : i \in DOMAIN vec} \ {Null})

\* change_selection, were the name field left to the mirror.
change_selectionKeepName(in, ents) ==
    IF in.selected_index >= Len(ents) THEN in
    ELSE LET entity == ents[in.selected_index + 1]
         IN  [in EXCEPT !.is_active = entity.is_active,
                        !.scale     = entity.scale,
                        !.velocity  = <<entity.velocity.x, entity.velocity.y>>,
                        !.color     = <<entity.color.r, entity.color.g, entity.color.b>>]

change_selection(in, ents) ==
    IF in.selected_index >= Len(ents) THEN in
    ELSE LET entity == ents[in.selected_index + 1]
         IN  [in EXCEPT !.is_active = entity.is_active,
                        !.scale     = entity.scale,
                        !.velocity  = <<entity.velocity.x, entity.velocity.y>>,
                        !.color     = <<entity.color.r, entity.color.g, entity.color.b>>,
                        !.name      = entity.name]

\* update_selection, were a velocity slider compared with the entity's velocity
\* and not with the slider's value of the frame before.
update_selectionAgainstEntity(in, prev, ents) ==
    LET entity == ents[in.selected_index + 1]
    IN  [input |-> in,
         entities |-> [ents EXCEPT ![in.selected_index + 1] =
                        [entity EXCEPT
                            !.is_active = in.is_active,
                            !.scale     = in.scale,
                            !.velocity  = [x |-> in.velocity[1], y |-> in.velocity[2]],
                            !.color     = [r |-> in.color[1], g |-> in.color[2],
                                           b |-> in.color[3], a |-> 1],
                            !.name      = in.name]]]

\* update_selection, were the active flag written to every entity.
update_selectionAllActive(in, prev, ents) ==
    LET entity == ents[in.selected_index + 1]
        keepx  == in.velocity[1] = prev.velocity[1]
        keepy  == in.velocity[2] = prev.velocity[2]
    IN  [input |-> [in EXCEPT !.velocity =
                        <<IF keepx THEN entity.velocity.x ELSE in.velocity[1],
                          IF keepy THEN entity.velocity.y ELSE in.velocity[2]>>],
         entities |-> [i \in DOMAIN ents |->
                        IF i # in.selected_index + 1
                        THEN [ents[i] EXCEPT !.is_active = in.is_active]
                        ELSE [entity EXCEPT
                                !.is_active = in.is_active,
                                !.scale     = in.scale,
                                !.velocity  = [x |-> IF keepx THEN entity.velocity.x
                                                     ELSE in.velocity[1],
                                               y |-> IF keepy THEN entity.velocity.y
                                                     ELSE in.velocity[2]],
                                !.color     = [r |-> in.color[1], g |-> in.color[2],
                                               b |-> in.color[3], a |-> 1],
                                !.name      = in.name]]]

\* The input payload and the entities after update_selection.
update_selection(in, prev, ents) ==
    LET entity == ents[in.selected_index + 1]
        keepx  == in.velocity[1] = prev.velocity[1]
        keepy  == in.velocity[2] = prev.velocity[2]
    IN  [input |-> [in EXCEPT !.velocity =
                        <<IF keepx THEN entity.velocity.x ELSE in.velocity[1],
                          IF keepy THEN entity.velocity.y ELSE in.velocity[2]>>],
         entities |-> [ents EXCEPT ![in.selected_index + 1] =
                        [entity EXCEPT
                            !.is_active = in.is_active,
                            !.scale     = in.scale,
                            !.velocity  = [x |-> IF keepx THEN entity.velocity.x
                                                 ELSE in.velocity[1],
                                           y |-> IF keepy THEN entity.velocity.y
                                                 ELSE in.velocity[2]],
                            !.color     = [r |-> in.color[1], g |-> in.color[2],
                                           b |-> in.color[3], a |-> 1],
                            !.name      = in.name]]]

handle_input(in, prev, ents) ==
    IF in.selected_index >= Len(ents) THEN [input |-> in, entities |-> ents]
    ELSE IF in.selected_index = prev.selected_index THEN update_selection(in, prev, ents)
    ELSE [input |-> change_selection(in, ents), entities |-> ents]

\* handle_simulation, were the active flag not looked at.
handle_simulationAll(in, window, ents, h) ==
    [i \in DOMAIN ents |->
        IF in.simulate_enabled THEN move(ents[i], window, h) ELSE ents[i]]

\* handle_simulation, were the pass to end after the first entity it moves.
handle_simulationFirstOnly(in, window, ents, h) ==
    [i \in DOMAIN ents |->
        IF /\ ents[i].is_active /\ in.simulate_enabled
           /\ \A j \in 1..(i - 1) : ~ents[j].is_active
        THEN move(ents[i], window, h)
        ELSE ents[i]]

handle_simulation(in, window, ents, h) ==
    [i \in DOMAIN ents |->
        IF ents[i].is_active /\ in.simulate_enabled THEN move(ents[i], window, h)
        ELSE ents[i]]

\* The draw calls handle_rendering makes, in order, from entity i on.
RECURSIVE handle_rendering(_, _, _)
handle_rendering(in, ents, i) ==
    IF i > Len(ents) THEN <<>>
    ELSE (IF ents[i].is_active /\ in.draw_shapes_enabled
          THEN <<[what |-> "shape", index |-> i - 1]>> ELSE <<>>)
         \o (IF ents[i].is_active /\ in.draw_text_enabled
             THEN <<[what |-> "name", index |-> i - 1]>> ELSE <<>>)
         \o handle_rendering(in, ents, i + 1)

\* The window of the frame loop's runs.
PlayWindow == [caption |-> "play", width |-> 6, height |-> 5]

\* What the loader hands main: entities that are active, opaque, of scale 1,
\* each owning its shape.
Loaded(name, px, py, vx, vy, addr) ==
    [name |-> name, position |-> [x |-> px, y |-> py], velocity |-> [x |-> vx, y |-> vy],
     shape |-> addr, scale |-> 1, color |-> [r |-> 1, g |-> 0, b |-> 0, a |-> 1],
     is_active |-> TRUE]

\* The loads the frame loop is run on: no entity, one circle, a circle and a
\* rectangle.  Each is the template list with the free store that holds its
\* shapes.
Loads ==
    {[templates |-> <<>>, heap |-> EmptyHeap],
     [templates |-> <<Loaded("c", 1, 2, -1, 1, 1)>>,
      heap |-> [a \in {1} |-> CircleShape(1)]],
     [templates |-> <<Loaded("c", 1, 2, -1, 1, 1), Loaded("r", 4, 3, 1, 0, 2)>>,
      heap |-> [a \in {1, 2} |-> IF a = 1 THEN CircleShape(1) ELSE RectangleShape(3, 2)]]}

Init ==
    /\ \E ld \in Loads :
          /\ config = [window |-> PlayWindow, font_asset |-> FontAsset0,
                       entity_templates |-> ld.templates]
          /\ heap = ld.heap
    /\ file = [kinds |-> <<>>, defect |-> NoDefect, trail |-> FALSE, opened |-> TRUE]
    /\ input = ClosedStream
    /\ ppc = "returned"
    /\ last = Last0
    /\ entities = <<>>
    /\ ui = Input0
    /\ previous_input = Input0
    /\ pc = "start"
    /\ frame = 0
    /\ drawn = <<>>
    /\ event = NoEvent
    /\ arg = <<>>
    /\ out = <<>>

\* Startup, were the templates moved into the live list and not copied.
StartupFromMoved ==
    /\ pc = "start"
    /\ entities' = [i \in DOMAIN config.entity_templates |->
                        MoveConstructed(config.entity_templates[i])]
    /\ config' = [config EXCEPT !.entity_templates =
                        [i \in DOMAIN config.entity_templates |->
                            [config.entity_templates[i] EXCEPT !.shape = Null, !.name = ""]]]
    /\ ui' = change_selection(Input0, entities')
    /\ previous_input' = Input0
    /\ pc' = "input"
    /\ UNCHANGED <<frame, drawn, event, heap, file, input, ppc, last, call_vars>>

\* main, from the copy of the templates to the first test of the loop.
Startup ==
    /\ pc = "start"
    /\ LET c == CopyInto(heap, <<>>, config.entity_templates, 1)
       IN  /\ entities' = c.vec
           /\ heap' = c.heap
           /\ ui' = change_selection(Input0, c.vec)
    /\ previous_input' = Input0
    /\ pc' = "input"
    /\ UNCHANGED <<frame, drawn, event, config, file, input, ppc, last, call_vars>>

\* handle_input(input, previous_input, entities); previous_input = input;
HandleInput ==
    /\ pc = "input"
    /\ frame < MaxFrames
    /\ LET r == handle_input(ui, previous_input, entities)
       IN  /\ ui' = r.input
           /\ entities' = r.entities
           /\ previous_input' = r.input
    /\ pc' = "simulate"
    /\ UNCHANGED <<frame, drawn, event, heap, parse_vars, call_vars>>

HandleSimulation ==
    /\ pc = "simulate"
    /\ entities' = handle_simulation(ui, config.window, entities, heap)
    /\ pc' = "render"
    /\ UNCHANGED <<ui, previous_input, frame, drawn, event, heap, parse_vars, call_vars>>

HandleRendering ==
    /\ pc = "render"
    /\ drawn' = handle_rendering(ui, entities, 1)
    /\ pc' = "ui"
    /\ UNCHANGED <<entities, ui, previous_input, frame, event, heap, parse_vars, call_vars>>

\* The control-panel pass of a frame (handle_all_shape_controls_ui,
\* handle_selected_shape_ui, handle_reset_ui) takes what the user does in
\* that frame; the user works one widget in a frame, or none.

\* The pass leaves the payload `in`; the frame ends.
PanelLeaves(in, ev) ==
    /\ pc = "ui"
    /\ ui' = in
    /\ event' = ev
    /\ pc' = "input"
    /\ frame' = frame + 1
    /\ UNCHANGED <<entities, previous_input, drawn, heap, parse_vars, call_vars>>

UiIdle == PanelLeaves(ui, [type |-> "idle", arg |-> 0])

\* One of the three check boxes of handle_all_shape_controls_ui.
UiToggle ==
    \/ PanelLeaves([ui EXCEPT !.draw_shapes_enabled = ~ui.draw_shapes_enabled],
                   [type |-> "draw_shapes", arg |-> 0])
    \/ PanelLeaves([ui EXCEPT !.draw_text_enabled = ~ui.draw_text_enabled],
                   [type |-> "draw_text", arg |-> 0])
    \/ PanelLeaves([ui EXCEPT !.simulate_enabled = ~ui.simulate_enabled],
                   [type |-> "simulate", arg |-> 0])

\* An item of the Shape combo.
UiSelect ==
    \E i \in 0..(Len(entities) - 1) :
        PanelLeaves([ui EXCEPT !.selected_index = i], [type |-> "select", arg |-> i])

\* The values the user gives the velocity sliders and the color editor.
VelocityEdits == {-2, 2}

ColorEdit == <<0, 0, 1>>

\* A widget of the selected shape's controls; there are none to work when
\* there is no entity.
UiEdit ==
    /\ Len(entities) > 0
    /\ \/ PanelLeaves([ui EXCEPT !.is_active = ~ui.is_active], [type |-> "active", arg |-> 0])
       \/ \E sc \in (1..MaxScale) \ {ui.scale} :
            PanelLeaves([ui EXCEPT !.scale = sc], [type |-> "scale", arg |-> sc])
       \/ \E k \in {1, 2} : \E v \in VelocityEdits \ {ui.velocity[k]} :
            PanelLeaves([ui EXCEPT !.velocity[k] = v], [type |-> "velocity", arg |-> k])
       \/ /\ ui.color # ColorEdit
          /\ PanelLeaves([ui EXCEPT !.color = ColorEdit], [type |-> "color", arg |-> 0])
       \/ /\ ui.name # "edited"
          /\ PanelLeaves([ui EXCEPT !.name = "edited"], [type |-> "name", arg |-> 0])

\* UiReset, were the selection and its mirror left as they are.
UiResetKeepSelection ==
    /\ pc = "ui"
    /\ LET c == CopyInto(Cleared(heap, entities), <<>>, config.entity_templates, 1)
       IN  /\ entities' = c.vec
           /\ heap' = c.heap
           /\ ui' = [ui EXCEPT !.draw_shapes_enabled = TRUE, !.draw_text_enabled = TRUE,
                               !.simulate_enabled = TRUE]
    /\ event' = [type |-> "reset", arg |-> 0]
    /\ pc' = "input"
    /\ frame' = frame + 1
    /\ UNCHANGED <<previous_input, drawn, parse_vars, call_vars>>

\* The Reset button of handle_reset_ui.
UiReset ==
    /\ pc = "ui"
    /\ LET c == CopyInto(Cleared(heap, entities), <<>>, config.entity_templates, 1)
       IN  /\ entities' = c.vec
           /\ heap' = c.heap
           /\ ui' = change_selection(
                        [ui EXCEPT !.draw_shapes_enabled = TRUE, !.draw_text_enabled = TRUE,
                                   !.simulate_enabled = TRUE, !.selected_index = 0],
                        c.vec)
    /\ event' = [type |-> "reset", arg |-> 0]
    /\ pc' = "input"
    /\ frame' = frame + 1
    /\ UNCHANGED <<previous_input, drawn, parse_vars, call_vars>>

\* WindowShouldClose() is true: the loop ends.
Close ==
    /\ pc = "input"
    /\ pc' = "closed"
    /\ UNCHANGED <<entities, ui, previous_input, frame, drawn, event, heap, parse_vars,
                   call_vars>>

Next ==
    \/ Startup
    \/ HandleInput
    \/ HandleSimulation
    \/ HandleRendering
    \/ UiIdle
    \/ UiToggle
    \/ UiSelect
    \/ UiEdit
    \/ UiReset
    \/ Close

Spec == Init /\ [][Next]_vars

-----------------------------------------------------------------------------
(* The frame loop run on: after MaxFrames frames the user leaves the control
   panel alone and does not close the window, and the loop keeps running *)

\* A window with room for a circle of radius 3 at twice its size.
WideWindow == [caption |-> "wide", width |-> 14, height |-> 14]

\* The loads of the runs: those of Loads in the play window, and in the wide
\* window a circle that is one step from touching the left edge.
LiveLoads ==
    {[window |-> PlayWindow, templates |-> ld.templates, heap |-> ld.heap] : ld \in Loads}
    \cup {[window |-> WideWindow, templates |-> <<Loaded("c", 4, 7, -1, 0, 1)>>,
           heap |-> [a \in {1} |-> CircleShape(3)]]}

InitLive ==
    /\ \E ld \in LiveLoads :
          /\ config = [window |-> ld.window, font_asset |-> FontAsset0,
                       entity_templates |-> ld.templates]
          /\ heap = ld.heap
    /\ file = [kinds |-> <<>>, defect |-> NoDefect, trail |-> FALSE, opened |-> TRUE]
    /\ input = ClosedStream
    /\ ppc = "returned"
    /\ last = Last0
    /\ entities = <<>>
    /\ ui = Input0
    /\ previous_input = Input0
    /\ pc = "start"
    /\ frame = 0
    /\ drawn = <<>>
    /\ event = NoEvent
    /\ arg = <<>>
    /\ out = <<>>

\* HandleInput, in whichever frame.
RunInput ==
    /\ pc = "input"
    /\ LET r == handle_input(ui, previous_input, entities)
       IN  /\ ui' = r.input
           /\ entities' = r.entities
           /\ previous_input' = r.input
    /\ pc' = "simulate"
    /\ UNCHANGED <<frame, drawn, event, heap, parse_vars, call_vars>>

\* A control-panel pass in which the user does something, or could have.
UiAttended ==
    /\ frame < MaxFrames
    /\ \/ UiIdle
       \/ UiToggle
       \/ UiSelect
       \/ UiEdit
       \/ UiReset

\* A control-panel pass once the user has left: the payload stays as it is.
UiLeftAlone ==
    /\ pc = "ui"
    /\ frame = MaxFrames
    /\ event' = [type |-> "idle", arg |-> 0]
    /\ pc' = "input"
    /\ UNCHANGED <<entities, ui, previous_input, frame, drawn, heap, parse_vars, call_vars>>

NextLive ==
    \/ Startup
    \/ RunInput
    \/ HandleSimulation
    \/ HandleRendering
    \/ UiAttended
    \/ UiLeftAlone

\* while( !WindowShouldClose() ) with a window that stays open: the loop
\* always takes its next step.
SpecLive == InitLive /\ [][NextLive]_vars /\ WF_vars(NextLive)

-----------------------------------------------------------------------------
(* Single calls of Entity's copy and move members, on the entities of InitCall *)

\* Entity& operator =(const Entity& right), on an object other than right:
\* the clone is made, then the shape `this` owned is destroyed; scale is not
\* assigned.
CopyAssigned(h, this, right) ==
    [heap   |-> Free(Alloc(h, h[right.shape]), {this.shape} \ {Null}),
     entity |-> [this EXCEPT !.name = right.name, !.position = right.position,
                             !.velocity = right.velocity, !.shape = NewAddr(h),
                             !.color = right.color, !.is_active = right.is_active]]

\* Entity& operator =(Entity&& right), on an object other than right: the
\* shape `this` owned is destroyed and right's is taken; scale is not
\* assigned.
MoveAssigned(h, this, right) ==
    [heap   |-> Free(h, {this.shape} \ {Null}),
     entity |-> [this EXCEPT !.name = right.name, !.position = right.position,
                             !.velocity = right.velocity, !.shape = right.shape,
                             !.color = right.color, !.is_active = right.is_active]]

\* What a moved-from entity may be: its unique_ptr is null, and its name is
\* a valid string the standard does not specify.
MovedFrom(e) == {[e EXCEPT !.shape = Null, !.name = n] : n \in {"", e.name}}

\* The source of a call, as a value.
SourceValue == [arg.entity EXCEPT !.shape = heap[arg.entity.shape]]

\* The objects assigned to: a default-constructed entity, or one that owns a
\* shape, at each scale.
Assignees(h) ==
    {[Entity0 EXCEPT !.scale = sc, !.shape = a] : sc \in 1..MaxScale, a \in {Null, NewAddr(h)}}

\* The free store in which the assignee `this` owns its shape.
WithAssignee(h, this) == IF this.shape = Null THEN h ELSE Alloc(h, RectangleShape(1, 1))

\* Entity copy{ arg.entity };
CallCopyConstruct ==
    /\ out.op = "none"
    /\ LET c == CopyConstruct(heap, arg.entity)
       IN  /\ heap' = c.heap
           /\ out' = [op |-> "copy_construct", entity |-> c.entity, source |-> SourceValue]
    /\ UNCHANGED <<arg, parse_vars, frame_vars>>

\* Entity moved{ std::move(arg.entity) };
CallMoveConstruct ==
    /\ out.op = "none"
    /\ out' = [op |-> "move_construct", entity |-> MoveConstructed(arg.entity),
               source |-> SourceValue]
    /\ \E e \in MovedFrom(arg.entity) : arg' = [arg EXCEPT !.entity = e]
    /\ UNCHANGED <<heap, parse_vars, frame_vars>>

\* assignee = arg.entity;
CallCopyAssign ==
    /\ out.op = "none"
    /\ \E this \in Assignees(heap) :
          LET c == CopyAssigned(WithAssignee(heap, this), this, arg.entity)
          IN  /\ heap' = c.heap
              /\ out' = [op |-> "copy_assign", entity |-> c.entity, source |-> SourceValue]
    /\ UNCHANGED <<arg, parse_vars, frame_vars>>

\* assignee = std::move(arg.entity);
CallMoveAssign ==
    /\ out.op = "none"
    /\ \E this \in Assignees(heap) :
          LET c == MoveAssigned(WithAssignee(heap, this), this, arg.entity)
          IN  /\ heap' = c.heap
              /\ out' = [op |-> "move_assign", entity |-> c.entity, source |-> SourceValue]
    /\ \E e \in MovedFrom(arg.entity) : arg' = [arg EXCEPT !.entity = e]
    /\ UNCHANGED <<parse_vars, frame_vars>>

NextValue ==
    \/ CallCopyConstruct
    \/ CallMoveConstruct
    \/ CallCopyAssign
    \/ CallMoveAssign

SpecValue == InitCall /\ [][NextValue]_vars

-----------------------------------------------------------------------------
(* What the grammar says a file holds, read off the file's description *)

EntityKeywords == {"Circle", "Rectangle"}

\* The shape an entity owns, by value; a null pointer owns none.
ShapeOf(e) == IF e.shape \in DOMAIN heap THEN heap[e.shape] ELSE [kind |-> "none"]

\* The fields a Circle or Rectangle record gives an entity.
RecordFields(e) ==
    [name |-> e.name, position |-> e.position, velocity |-> e.velocity,
     rgb |-> <<e.color.r, e.color.g, e.color.b>>, shape |-> ShapeOf(e)]

\* The fields written on line i, a well-formed Circle or Rectangle record.
WrittenFields(i, kind) ==
    [name |-> Word(i, kind),
     position |-> [x |-> Val(i, 2), y |-> Val(i, 3)],
     velocity |-> [x |-> Val(i, 4), y |-> Val(i, 5)],
     rgb |-> <<Val(i, 6), Val(i, 7), Val(i, 8)>>,
     shape |-> IF kind = "Circle" THEN CircleShape(Val(i, 9))
               ELSE RectangleShape(Val(i, 9), Val(i, 10))]

WrittenWindow(i) == [caption |-> Word(i, "Window"), width |-> Val(i, 2), height |-> Val(i, 3)]

WrittenFont(i) ==
    [file |-> Word(i, "Font"), size |-> Val(i, 2),
     color |-> [r |-> Val(i, 3), g |-> Val(i, 4), b |-> Val(i, 5), a |-> 1]]

\* The lines among the first n of the file whose kind is in K, in file order.
RECURSIVE LinesOf(_, _, _)
LinesOf(f, K, n) ==
    IF n = 0 THEN <<>>
    ELSE IF f.kinds[n] \in K THEN Append(LinesOf(f, K, n - 1), n) ELSE LinesOf(f, K, n - 1)

WellFormedFile(f) == f.opened /\ f.defect = NoDefect

\* The tokens at the head of rest are a complete record: a keyword, then all
\* its fields, a number wherever the grammar asks for one.
WellFormedAt(rest) ==
    /\ rest # <<>>
    /\ Head(rest).k = "txt"
    /\ Head(rest).s \in Keywords
    /\ Len(rest) >= 1 + FieldCount(Head(rest).s)
    /\ \A p \in 2..FieldCount(Head(rest).s) : rest[p + 1].k = "num"

\* operator>> has run to its end.
Parsed == ppc \in {"check", "returned"}

\* The latest iteration met the keyword of an entity record that is not
\* well formed.
MalformedEntityMet == last.kw \in EntityKeywords /\ ~WellFormedAt(last.rest)

\* The template list holds exactly the records of the lines ls, in order.
TemplatesAre(f, ls) ==
    /\ Len(config.entity_templates) = Len(ls)
    /\ \A k \in 1..Len(ls) :
          RecordFields(config.entity_templates[k]) = WrittenFields(ls[k], f.kinds[ls[k]])

-----------------------------------------------------------------------------
(* Claims about the loader *)

\* C1: a file of N well-formed Circle/Rectangle records, interleaved in any
\* way with other records, parses to a template list of length N whose i-th
\* element carries the fields of the i-th entity record in file order.
C1_OrderPreserving ==
    (Parsed /\ WellFormedFile(file)) =>
        TemplatesAre(file, LinesOf(file, EntityKeywords, Len(file.kinds)))

C1_Witness ==
    /\ Parsed
    /\ WellFormedFile(file)
    /\ Len(file.kinds) >= 2
    /\ \A i \in 1..Len(file.kinds) : file.kinds[i] \in EntityKeywords
    /\ file.kinds[1] # file.kinds[2]
    /\ Len(config.entity_templates) = Len(file.kinds)

\* C2: a Circle or Rectangle record with a field missing or not parsing never
\* appends an entity: the template list after the record is attempted equals
\* the list before it.
C2_MalformedDiscarded ==
    (ppc \in {"loop", "check", "returned"} /\ MalformedEntityMet) =>
        config.entity_templates = last.cfg.entity_templates

\* A Circle record without its radius, the next record's keyword following.
C2_Witness ==
    /\ ppc = "loop"
    /\ last.kw = "Circle"
    /\ Len(last.rest) > 9
    /\ \A p \in 3..9 : last.rest[p].k = "num"
    /\ last.rest[10].k = "txt"
    /\ config.entity_templates = last.cfg.entity_templates

\* Line j of the file shows in the loaded config.
LineParsed(f, j) ==
    CASE f.kinds[j] \in EntityKeywords ->
            \E k \in 1..Len(config.entity_templates) :
                RecordFields(config.entity_templates[k]) = WrittenFields(j, f.kinds[j])
      [] f.kinds[j] = "Window" ->
            (\A i \in (j + 1)..Len(f.kinds) : f.kinds[i] # "Window") =>
                config.window = WrittenWindow(j)
      [] f.kinds[j] = "Font" ->
            (\A i \in (j + 1)..Len(f.kinds) : f.kinds[i] # "Font") =>
                config.font_asset = WrittenFont(j)
      [] OTHER -> TRUE

C4_ThrowsIffFailedBeforeEnd ==
    /\ ppc = "thrown" => (~file.opened \/ (input.fail /\ ~input.eof))
    /\ ppc = "returned" => (file.opened /\ ~(input.fail /\ ~input.eof))
    /\ (ppc \in {"returned", "thrown"} /\ input.eof) => ppc = "returned"
    /\ (ppc \in {"returned", "thrown"} /\ file.opened /\ input.rest = <<>>) => ppc = "returned"
    /\ (ppc \in {"returned", "thrown"} /\ input.rest # <<>>) => ppc = "thrown"

C4_Witness ==
    /\ ppc = "thrown"
    /\ file.opened
    /\ input.fail
    /\ ~input.eof
    /\ config.entity_templates = <<>>
    /\ last.cfg.entity_templates # <<>>

\* C5: when the input ends while the fields of a Circle/Rectangle record
\* are being read, load_config returns a Config whose template list holds
\* exactly the well-formed entity records before the truncated one, in order.
C5_TruncatedRecordLoads ==
    (/\ ppc \in {"returned", "thrown"}
     /\ file.defect.type = "Cut"
     /\ file.kinds[file.defect.line] \in EntityKeywords) =>
        /\ ppc = "returned"
        /\ TemplatesAre(file, LinesOf(file, EntityKeywords, Len(file.kinds) - 1))

C5_Witness ==
    /\ ppc = "returned"
    /\ file.defect.type = "Cut"
    /\ file.defect.pos > 1
    /\ Len(file.kinds) = 2
    /\ \A i \in 1..2 : file.kinds[i] \in EntityKeywords
    /\ Len(config.entity_templates) = 1

\* C6: a keyword token that is none of Window, Font, Circle, Rectangle is
\* skipped by consuming exactly that token: the Config is unchanged, no
\* error state is entered, and parsing goes on with the next token; so an
\* unrecognized leading token followed by a well-formed Window record still
\* yields that record's caption, width and height.
C6_UnknownKeywordSkipped ==
    /\ (ppc = "loop" /\ last.kw # "" /\ last.kw \notin Keywords) =>
            /\ config = last.cfg
            /\ input.rest = Tail(last.rest)
            /\ ~input.fail
    /\ (Parsed /\ WellFormedFile(file) /\ file.kinds = <<"Foo", "Window">>) =>
            config.window = WrittenWindow(2)

C6_Witness ==
    /\ ppc = "returned"
    /\ WellFormedFile(file)
    /\ file.kinds = <<"Foo", "Window">>
    /\ config.window.caption = "cap2"

\* C7: of several well-formed Window (or Font) records the last one in file
\* order sets the loaded settings, every field of it; and a file with no
\* entity record loads with an empty template list.
C7_LastWins ==
    (ppc \in {"returned", "thrown"} /\ WellFormedFile(file)) =>
        LET ws == LinesOf(file, {"Window"}, Len(file.kinds))
            fs == LinesOf(file, {"Font"}, Len(file.kinds))
        IN  /\ ppc = "returned"
            /\ config.window = IF ws = <<>> THEN Window0 ELSE WrittenWindow(ws[Len(ws)])
            /\ config.font_asset = IF fs = <<>> THEN FontAsset0 ELSE WrittenFont(fs[Len(fs)])
            /\ LinesOf(file, EntityKeywords, Len(file.kinds)) = <<>> =>
                    config.entity_templates = <<>>

C7_Witness ==
    /\ ppc = "returned"
    /\ WellFormedFile(file)
    /\ file.kinds = <<"Window", "Window">>
    /\ config.window.width = Val(2, 2)
    /\ config.entity_templates = <<>>

-----------------------------------------------------------------------------
(* Claims about the shapes and the bounce step *)

\* How far a shape scaled by sc reaches to either side of its center, in
\* half pixels.
HalfWidth2(shape, sc) ==
    IF shape.kind = "Circle" THEN 2 * shape.radius * sc ELSE shape.width * sc

HalfHeight2(shape, sc) ==
    IF shape.kind = "Circle" THEN 2 * shape.radius * sc ELSE shape.height * sc

\* C8: one move step takes the bounding box at the tentative position
\* (position + velocity, at the entity's scale); on each axis independently
\* the velocity component is negated iff the box minimum on that axis is < 0
\* or the box maximum exceeds the window dimension, and is otherwise
\* unchanged; the new position is the original position plus the velocity
\* after the test.  A circle of radius 10 at (5,50) with velocity (-3,0) in a
\* 200x200 window ends with vx = 3 and x = 8; at (100,100) with velocity
\* (1,1) it does not flip and lands on (101,101).
C8_BounceStep ==
    out.op = "move" =>
        LET e   == arg.entity
            sh  == heap[e.shape]
            tx  == e.position.x + e.velocity.x
            ty  == e.position.y + e.velocity.y
            fx  == \/ 2 * tx - HalfWidth2(sh, e.scale) < 0
                   \/ 2 * tx + HalfWidth2(sh, e.scale) > 2 * arg.window.width
            fy  == \/ 2 * ty - HalfHeight2(sh, e.scale) < 0
                   \/ 2 * ty + HalfHeight2(sh, e.scale) > 2 * arg.window.height
            vx  == IF fx THEN -e.velocity.x ELSE e.velocity.x
            vy  == IF fy THEN -e.velocity.y ELSE e.velocity.y
        IN  /\ out.entity.velocity = [x |-> vx, y |-> vy]
            /\ out.entity.position = [x |-> e.position.x + vx, y |-> e.position.y + vy]
            /\ out.entity = [e EXCEPT !.velocity = out.entity.velocity,
                                      !.position = out.entity.position]
            /\ (/\ sh = CircleShape(10) /\ e.scale = 1
                /\ arg.window.width = 200 /\ arg.window.height = 200
                /\ e.position = [x |-> 5, y |-> 50]
                /\ e.velocity = [x |-> -3, y |-> 0]) =>
                    /\ out.entity.velocity.x = 3
                    /\ out.entity.position.x = 8
            /\ (/\ sh = CircleShape(10) /\ e.scale = 1
                /\ arg.window.width = 200 /\ arg.window.height = 200
                /\ e.position = [x |-> 100, y |-> 100]
                /\ e.velocity = [x |-> 1, y |-> 1]) =>
                    /\ out.entity.velocity = [x |-> 1, y |-> 1]
                    /\ out.entity.position = [x |-> 101, y |-> 101]

C8_Witness ==
    /\ out.op = "move"
    /\ heap[arg.entity.shape] = CircleShape(10)
    /\ arg.entity.scale = 1
    /\ arg.window.width = 200
    /\ arg.window.height = 200
    /\ arg.entity.position = [x |-> 5, y |-> 50]
    /\ arg.entity.velocity = [x |-> -3, y |-> 0]
    /\ out.entity.velocity.x = 3
    /\ out.entity.position.x = 8

\* C9: Circle{radius}.aabb(p, s) is the square of side 2*radius*s centered
\* at p (min corner p - radius*s on both axes); Rectangle{width,height}
\* .aabb(p, s) is the box of width width*s and height height*s centered at p
\* (min corner p.x - width*s/2, p.y - height*s/2).  In half pixels.
C9_BoundingBox ==
    out.op = "aabb" =>
        LET sh == heap[arg.entity.shape]
            p  == arg.entity.position
            sc == arg.entity.scale
            b  == out.box
        IN  /\ 2 * b.x + b.width = 4 * p.x
            /\ 2 * b.y + b.height = 4 * p.y
            /\ sh.kind = "Circle" =>
                    /\ b.width = 2 * (2 * sh.radius * sc)
                    /\ b.height = b.width
                    /\ b.x = 2 * (p.x - sh.radius * sc)
                    /\ b.y = 2 * (p.y - sh.radius * sc)
            /\ sh.kind = "Rectangle" =>
                    /\ b.width = 2 * (sh.width * sc)
                    /\ b.height = 2 * (sh.height * sc)
                    /\ b.x = 2 * p.x - sh.width * sc
                    /\ b.y = 2 * p.y - sh.height * sc

C9_Witness ==
    /\ out.op = "aabb"
    /\ heap[arg.entity.shape] = RectangleShape(3, 20)
    /\ arg.entity.scale = 2
    /\ arg.entity.position = [x |-> 13, y |-> 50]
    /\ out.box = [x |-> 20, y |-> 60, width |-> 12, height |-> 80]

-----------------------------------------------------------------------------
(* Claims about the entities of the running program *)

\* Every entity there is: the templates, then the live entities.
AllEntities == config.entity_templates \o entities

\* C10: copying an entity gives the copy its own shape instance: no two
\* entities, live or template, ever reference the same shape object (and
\* each references a live object of the free store).
C10_NoSharedShape ==
    /\ \A i \in DOMAIN AllEntities : AllEntities[i].shape \in DOMAIN heap
    /\ \A i, j \in DOMAIN AllEntities :
          i # j => AllEntities[i].shape # AllEntities[j].shape

\* After a reset: the live entities are fresh copies of two templates.
C10_Witness ==
    /\ event.type = "reset"
    /\ Len(entities) = 2
    /\ Len(config.entity_templates) = 2
    /\ \A i \in 1..2 : /\ entities[i].shape # config.entity_templates[i].shape
                       /\ heap[entities[i].shape] = heap[config.entity_templates[i].shape]

-----------------------------------------------------------------------------
(* Claims about edit reconciliation *)

\* handle_input is running with a selected index that is valid for the live
\* list (this step is the call at the head of a frame).
InputStep == pc = "input" /\ pc' = "simulate" /\ ui.selected_index < Len(entities)

\* The entity the payload `in` selects.
Selected(in, ents) == ents[in.selected_index + 1]

\* The mirrored edit fields of `in` hold the attributes of entity e.
Mirrors(in, e) ==
    /\ in.is_active = e.is_active
    /\ in.scale = e.scale
    /\ in.velocity = <<e.velocity.x, e.velocity.y>>
    /\ in.color = <<e.color.r, e.color.g, e.color.b>>
    /\ in.name = e.name

\* C11: when handle_input runs with a selected index that differs from the
\* previous frame's and is valid for the live list, every mirrored edit field
\* is overwritten with the newly selected entity's current value, and the call
\* modifies no live entity.
C11_SelectionResync ==
    [][(InputStep /\ ui.selected_index # previous_input.selected_index)
         => /\ Mirrors(ui', Selected(ui, entities))
            /\ ui'.selected_index = ui.selected_index
            /\ entities' = entities
            /\ heap' = heap]_vars

\* The first frame after the user picked the second entity in the combo: the
\* mirror, which held the first entity's values, holds the second's.
C11_Witness ==
    /\ pc = "simulate"
    /\ frame = 1
    /\ event = [type |-> "select", arg |-> 1]
    /\ ui.selected_index = 1
    /\ Mirrors(ui, entities[2])
    /\ ~Mirrors(ui, entities[1])
    /\ ui.name # entities[1].name

\* C12: in a frame where the selected index is the previous frame's, a
\* mirrored field is written back into the selected entity only if it differs
\* from its value in the previous frame's mirror: a field equal to its
\* previous-frame value leaves the entity's attribute as it was, whatever the
\* entity's value is, and a velocity component that differs is written.
C12_WriteBackOnChange ==
    [][(InputStep /\ ui.selected_index = previous_input.selected_index)
         => LET e  == Selected(ui, entities)
                e2 == Selected(ui, entities')
            IN  /\ ui.is_active = previous_input.is_active => e2.is_active = e.is_active
                /\ ui.scale = previous_input.scale => e2.scale = e.scale
                /\ ui.color = previous_input.color => e2.color = e.color
                /\ ui.name = previous_input.name => e2.name = e.name
                /\ ui.velocity[1] = previous_input.velocity[1]
                      => e2.velocity.x = e.velocity.x
                /\ ui.velocity[2] = previous_input.velocity[2]
                      => e2.velocity.y = e.velocity.y
                /\ ui.velocity[1] # previous_input.velocity[1]
                      => e2.velocity.x = ui.velocity[1]
                /\ ui.velocity[2] # previous_input.velocity[2]
                      => e2.velocity.y = ui.velocity[2]]_vars

\* Both cases in one call: the user moved the x slider, so the entity has the
\* slider's x; the y slider was not touched while a bounce turned the entity's
\* y velocity around, and the entity keeps the y the bounce gave it.
C12_Witness ==
    /\ pc = "simulate"
    /\ event = [type |-> "velocity", arg |-> 1]
    /\ Len(entities) > 0
    /\ ui.selected_index = 0
    /\ entities[1].velocity.x = ui.velocity[1]
    /\ entities[1].velocity.x \in VelocityEdits
    /\ entities[1].velocity.y = -config.entity_templates[1].velocity.y
    /\ entities[1].velocity.y # 0

-----------------------------------------------------------------------------
(* Claims about reset *)

\* An entity as a value: its fields, with the shape it owns in place of the
\* pointer to it.
ValueOf(e) == [e EXCEPT !.shape = ShapeOf(e)]

\* The live list equals the template list, element by element and in order.
LiveEqualsTemplates ==
    /\ Len(entities) = Len(config.entity_templates)
    /\ \A i \in DOMAIN entities : ValueOf(entities[i]) = ValueOf(config.entity_templates[i])

\* The last thing done in the control panel was a press of Reset, and no
\* simulation pass has run since.
JustReset == event.type = "reset" /\ pc \in {"input", "simulate", "closed"}

\* C13: after a reset the live list equals the template list element by
\* element and in order, the selected index is 0 and the mirrored edit fields
\* equal entity 0's attributes; the live list still equals the template list
\* when the next frame's simulation step begins.
C13_ResetRestores ==
    JustReset
      => /\ LiveEqualsTemplates
         /\ ui.selected_index = 0
         /\ Len(entities) > 0 => Mirrors(ui, entities[1])

\* A reset of a list whose first entity the user had renamed while it was
\* selected, and which had moved: the name and the position are the
\* template's again.
C13_Witness ==
    /\ event.type = "reset"
    /\ pc = "input"
    /\ frame = MaxFrames
    /\ Len(entities) = 2
    /\ previous_input.selected_index = 0
    /\ previous_input.name = "edited"
    /\ LiveEqualsTemplates
    /\ ui.name = config.entity_templates[1].name

-----------------------------------------------------------------------------
(* Claims about the passes of a frame *)

\* This step is the frame's simulation pass.
SimulationStep == pc = "simulate" /\ pc' = "render"

\* This step is the frame's render pass.
RenderStep == pc = "render" /\ pc' = "ui"

\* C14: the simulation pass changes an entity only if the entity is active
\* and the simulate toggle is on (an inactive entity keeps its position and
\* velocity, and with simulate off every entity does), and the render pass
\* draws no inactive entity.
C14_InactiveSkipped ==
    [][/\ SimulationStep
          => \A i \in DOMAIN entities :
                (~entities[i].is_active \/ ~ui.simulate_enabled)
                    => entities'[i] = entities[i]
       /\ RenderStep
          => \A k \in DOMAIN drawn' : entities[drawn'[k].index + 1].is_active]_vars

\* The frame after the user cleared the Active box of the first of two
\* entities: it is where its one move left it and is not drawn, while the
\* second has moved again and is drawn.
C14_Witness ==
    /\ pc = "ui"
    /\ frame = 1
    /\ event.type = "active"
    /\ Len(entities) = 2
    /\ ~entities[1].is_active
    /\ entities[1].position = [x |-> 2, y |-> 3]
    /\ entities[2].position # config.entity_templates[2].position
    /\ \A k \in DOMAIN drawn : drawn[k].index = 1
    /\ Len(drawn) = 2

\* C15: within every frame the steps run in order and whole: handle_input,
\* then one update pass after which move has been applied to every active
\* entity, then one render pass over that list, which it does not change, then
\* the control panel; so no render pass sees a list of which only some active
\* entities have been moved.
C15_FrameOrder ==
    [][/\ pc = "input" => /\ pc' \in {"simulate", "closed"}
                          /\ drawn' = drawn
                          /\ \A i \in DOMAIN entities :
                                entities'[i].position = entities[i].position
       /\ pc = "simulate"
            => /\ pc' = "render"
               /\ DOMAIN entities' = DOMAIN entities
               /\ <<ui', previous_input', drawn'>> = <<ui, previous_input, drawn>>
               /\ \A i \in DOMAIN entities :
                     entities'[i] = IF entities[i].is_active /\ ui.simulate_enabled
                                    THEN move(entities[i], config.window, heap)
                                    ELSE entities[i]
       /\ pc = "render"
            => /\ pc' = "ui"
               /\ <<entities', ui', previous_input'>> = <<entities, ui, previous_input>>
               /\ \A i \in DOMAIN entities :
                     (entities[i].is_active /\ ui.draw_shapes_enabled)
                        <=> \E k \in DOMAIN drawn' :
                                drawn'[k] = [what |-> "shape", index |-> i - 1]
       /\ pc = "ui" => /\ pc' = "input"
                       /\ frame' = frame + 1
                       /\ <<previous_input', drawn'>> = <<previous_input, drawn>>]_vars

\* The control-panel pass of the first frame: both entities have been moved
\* once, and both have been drawn, shape and name.
C15_Witness ==
    /\ pc = "ui"
    /\ frame = 0
    /\ Len(entities) = 2
    /\ \A i \in 1..2 :
          entities[i] = move([config.entity_templates[i] EXCEPT !.shape = entities[i].shape],
                             config.window, heap)
    /\ entities[1].position = [x |-> 2, y |-> 3]
    /\ entities[2].position = [x |-> 3, y |-> 3]
    /\ Len(drawn) = 4

-----------------------------------------------------------------------------
(* Claims about move at the window's edges *)

\* On one axis, a box of half extent h2 / 2 centered at t touches an edge of
\* a window of dimension dim and nowhere lies beyond one (extents in half
\* pixels).
Touches(t, h2, dim) ==
    /\ 2 * t - h2 >= 0
    /\ 2 * t + h2 <= 2 * dim
    /\ 2 * t - h2 = 0 \/ 2 * t + h2 = 2 * dim

\* C16: the bounce test is strict: when the tentative bounding box exactly
\* touches a window edge on an axis (minimum extent 0, or maximum extent
\* the window's dimension), move does not negate that axis's velocity and
\* the entity advances to the tentative position on that axis.
C16_StrictBounceTest ==
    out.op = "move" =>
        LET e  == arg.entity
            sh == heap[e.shape]
            tx == e.position.x + e.velocity.x
            ty == e.position.y + e.velocity.y
        IN  /\ Touches(tx, HalfWidth2(sh, e.scale), arg.window.width)
                  => /\ out.entity.velocity.x = e.velocity.x
                     /\ out.entity.position.x = tx
            /\ Touches(ty, HalfHeight2(sh, e.scale), arg.window.height)
                  => /\ out.entity.velocity.y = e.velocity.y
                     /\ out.entity.position.y = ty

\* A circle of radius 10 moving left and down the screen: its tentative box
\* has minimum x 0 and maximum y 200 in a 200x200 window: it keeps its
\* velocity and lands on (10, 190).
C16_Witness ==
    /\ out.op = "move"
    /\ heap[arg.entity.shape] = CircleShape(10)
    /\ arg.entity.scale = 1
    /\ arg.window.width = 200
    /\ arg.window.height = 200
    /\ arg.entity.position = [x |-> 13, y |-> 187]
    /\ arg.entity.velocity = [x |-> -3, y |-> 3]
    /\ out.entity.velocity = [x |-> -3, y |-> 3]
    /\ out.entity.position = [x |-> 10, y |-> 190]

-----------------------------------------------------------------------------
(* Claims about Entity as a value type *)

\* A call of one of the four copy and move members has returned.
ValueOps == {"copy_construct", "move_construct", "copy_assign", "move_assign"}

\* The entity a call made or assigned to, as a value.
ResultValue == [out.entity EXCEPT !.shape = heap[out.entity.shape]]

\* C17: an entity is a value type: copy-constructing, copy-assigning,
\* move-constructing or move-assigning an entity yields an entity equal to
\* the source in every field (name, position, velocity, shape variant and
\* dimensions, scale, color, active flag); a copy of an entity of scale s has
\* scale s.
C17_AsClaimed ==
    out.op \in ValueOps => ResultValue = out.source

-----------------------------------------------------------------------------
(* Claims about entities that leave the window *)

\* The bounding box of entity e lies within the window (an edge may touch).
Within(e) ==
    LET sh == heap[e.shape]
    IN  /\ 2 * e.position.x - HalfWidth2(sh, e.scale) >= 0
        /\ 2 * e.position.x + HalfWidth2(sh, e.scale) <= 2 * config.window.width
        /\ 2 * e.position.y - HalfHeight2(sh, e.scale) >= 0
        /\ 2 * e.position.y + HalfHeight2(sh, e.scale) <= 2 * config.window.height

\* The indices of the live list.
LiveIndices == 1..2

\* The simulation pass of a frame has just moved entity i and left its box
\* partly or wholly outside the window; simulation is on, and the user makes
\* no further edit.
LeftWindow(i) ==
    /\ pc = "render"
    /\ frame = MaxFrames
    /\ ui.simulate_enabled
    /\ i \in DOMAIN entities
    /\ entities[i].is_active
    /\ ~Within(entities[i])

\* Entity i is back within the window.
BackWithin(i) == i \in DOMAIN entities /\ Within(entities[i])

\* C18: leaving the window is only transient: whenever an active entity's
\* bounding box lies partly or wholly outside the window after a move step,
\* and simulation stays enabled with no further edits, the reflected velocity
\* brings the box back within the window on a later frame.
C18_AsClaimed == \A i \in LiveIndices : LeftWindow(i) ~> BackWithin(i)

-----------------------------------------------------------------------------
(* Claims about what changes an entity *)

\* The fields no pass but handle_input writes, with the shape as a value.
Attributes(e, h) ==
    [is_active |-> e.is_active, name |-> e.name, scale |-> e.scale, color |-> e.color,
     shape |-> e.shape, object |-> h[e.shape]]

\* This step is a press of Reset.
ResetStep == pc = "ui" /\ event'.type = "reset"

\* C19: an entity leaves the Active state only by explicit deactivation:
\* handle_input modifies at most the entity at the selected index, and
\* neither the simulation pass nor the render pass changes any entity's
\* active flag, name, scale, color or shape; so a non-selected entity's
\* active flag changes only through a reset.
C19_OnlyExplicitDeactivation ==
    [][/\ (pc = "input" /\ pc' = "simulate")
            => /\ DOMAIN entities' = DOMAIN entities
               /\ heap' = heap
               /\ \A i \in DOMAIN entities :
                     i # ui.selected_index + 1 => entities'[i] = entities[i]
       /\ (SimulationStep \/ RenderStep)
            => /\ DOMAIN entities' = DOMAIN entities
               /\ \A i \in DOMAIN entities :
                     Attributes(entities'[i], heap') = Attributes(entities[i], heap)
       /\ \A i \in DOMAIN entities \cap DOMAIN entities' :
             entities'[i].is_active # entities[i].is_active
                => \/ ResetStep
                   \/ /\ pc = "input"
                      /\ i = ui.selected_index + 1
                      /\ entities'[i].is_active = ui.is_active
       /\ \A i \in DOMAIN entities \cap DOMAIN entities' :
             (entities[i].is_active /\ ~entities'[i].is_active)
                => pc = "input" /\ i = ui.selected_index + 1 /\ ~ui.is_active]_vars

\* The user picked the second entity and cleared its Active box: after the
\* passes of the frame that took the edit, the second entity is inactive and
\* the first, which has been moved and drawn, is as active as it was.
C19_Witness ==
    /\ pc = "ui"
    /\ event.type = "active"
    /\ Len(entities) = 2
    /\ ui.selected_index = 1
    /\ ~ui.is_active
    /\ ~entities[2].is_active
    /\ entities[1].is_active
    /\ Attributes(entities[1], heap)
          = Attributes([config.entity_templates[1] EXCEPT !.shape = entities[1].shape], heap)
    /\ entities[1].position # config.entity_templates[1].position

-----------------------------------------------------------------------------
(* Claims about the templates *)

\* C20: the template list is never mutated after loading: across frames,
\* simulation steps, user edits, selection changes and resets, every
\* template's fields, its shape included, stay the values the loader
\* produced.
C20_TemplatesImmutable ==
    [][/\ config'.entity_templates = config.entity_templates
       /\ \A i \in DOMAIN config.entity_templates :
             LET a == config.entity_templates[i].shape
             IN  a \in DOMAIN heap' /\ heap'[a] = heap[a]]_vars

\* A renamed, rescaled, moved live entity beside its template, which is as
\* loaded.
C20_Witness ==
    /\ pc = "ui"
    /\ frame = 2
    /\ Len(entities) > 0
    /\ entities[1].name = "edited"
    /\ entities[1].scale = 2
    /\ entities[1].position # config.entity_templates[1].position
    /\ config.entity_templates[1] = Loaded("c", 1, 2, -1, 1, 1)
    /\ heap[config.entity_templates[1].shape] = CircleShape(1)

-----------------------------------------------------------------------------
(* Claims about the records the loader reads *)

\* The latest iteration appended a template.
Appended == /\ ppc # "thrown"
            /\ last.kw \in EntityKeywords
            /\ Len(config.entity_templates) = Len(last.cfg.entity_templates) + 1

\* The shape the tokens of a record that heads rest describe.
RecordShape(rest) ==
    IF Head(rest).s = "Circle" THEN CircleShape(rest[10].n)
    ELSE RectangleShape(rest[10].n, rest[11].n)

\* C21: every entity of the template list of a successful load is fully
\* formed: it is active, its color alpha is fully opaque, its scale is 1, and
\* it owns a non-null shape of the variant its record's keyword names, with
\* the dimensions parsed from the record (a Circle of the parsed radius, a
\* Rectangle of the parsed width and height).
C21_TemplatesFullyFormed ==
    /\ \A k \in DOMAIN config.entity_templates :
          LET e == config.entity_templates[k]
          IN  /\ e.is_active
              /\ e.color.a = 1
              /\ e.scale = 1
              /\ e.shape # Null
              /\ e.shape \in DOMAIN heap
              /\ heap[e.shape].kind \in EntityKeywords
    /\ Appended
          => LET e == config.entity_templates[Len(config.entity_templates)]
             IN  /\ heap[e.shape] = RecordShape(last.rest)
                 /\ heap[e.shape].kind = last.kw
    /\ (ppc = "returned" /\ WellFormedFile(file))
          => TemplatesAre(file, LinesOf(file, EntityKeywords, Len(file.kinds)))

\* A load that returned a Circle and then a Rectangle.
C21_Witness ==
    /\ ppc = "returned"
    /\ file.kinds = <<"Circle", "Rectangle">>
    /\ Len(config.entity_templates) = 2
    /\ ShapeOf(config.entity_templates[1]) = CircleShape(Val(1, 9))
    /\ ShapeOf(config.entity_templates[2]) = RectangleShape(Val(2, 9), Val(2, 10))
    /\ \A k \in 1..2 : /\ config.entity_templates[k].is_active
                       /\ config.entity_templates[k].scale = 1
                       /\ config.entity_templates[k].color.a = 1

\* load_config is over: it has returned or thrown.
LoadOver == ppc \in {"returned", "thrown"}

\* How far load_config is from its end: the tokens left to the keyword loop,
\* then the test of the stream, then the return or the throw.
Rank ==
    CASE ppc = "open"  -> Len(FileTokens(file)) + 3
      [] ppc = "loop"  -> Len(input.rest) + 2
      [] ppc = "check" -> 1
      [] OTHER         -> 0

\* C22: parsing terminates on every finite token stream: each iteration of
\* the keyword loop consumes at least one token or ends the loop, the loop
\* ends once the end of the input is reached or the stream has failed, and
\* no step loops without consuming input: every step of load_config brings
\* it nearer its end, which is a return or a throw.
C22_ParsingTerminates ==
    [][/\ (ppc = "loop" /\ ppc' = "loop") => Len(input'.rest) < Len(input.rest)
       /\ (ppc = "loop" /\ (input.fail \/ input.eof \/ input.rest = <<>>))
            => ppc' = "check" /\ input'.rest = input.rest
       /\ Rank' < Rank
       /\ Rank' = 0 <=> LoadOver']_vars

\* A load that is over, of a file of MaxLines lines in which every iteration
\* took one token only: unknown keywords and stray numbers.
C22_Witness ==
    /\ ppc = "returned"
    /\ Len(file.kinds) = MaxLines
    /\ \A i \in DOMAIN file.kinds : file.kinds[i] \in {"Foo", "Number"}
    /\ file.kinds[1] = "Foo"
    /\ input.rest = <<>>
    /\ input.eof
    /\ last.kw = Lexeme(FileTokens(file)[MaxLines])

\* Field p of a Window record and of a Font record, as the Config holds it.
WindowField(w, p) ==
    CASE p = 1 -> w.caption
      [] p = 2 -> w.width
      [] p = 3 -> w.height

FontField(f, p) ==
    CASE p = 1 -> f.file
      [] p = 2 -> f.size
      [] p = 3 -> f.color.r
      [] p = 4 -> f.color.g
      [] p = 5 -> f.color.b

\* What the token tok reads as in field p: text in the first field, a
\* number in the others.
ReadAs(p, tok) == IF p = 1 THEN Lexeme(tok) ELSE tok.n

\* The field at which the record at the head of rest fails: the first whose
\* token is missing, or is a word where a number belongs.
FailPos(rest) ==
    LET bad == {p \in 1..FieldCount(Head(rest).s) :
                    \/ Len(rest) < p + 1
                    \/ p >= 2 /\ rest[p + 1].k # "num"}
    IN  CHOOSE p \in bad : \A q \in bad : p <= q

\* The latest iteration met a record that is not well formed, and the
\* Config it worked on is still there.
FailedRecord ==
    /\ ppc \in {"loop", "check", "returned"}
    /\ last.kw \in Keywords
    /\ ~WellFormedAt(last.rest)

\* C23: Window and Font records have no rollback: when one fails part-way,
\* every field read before the failing token holds its newly read value,
\* whatever an earlier record had set; a failing Circle or Rectangle record
\* leaves the Config exactly as it was.
C23_NoRollbackButForEntities ==
    FailedRecord =>
        /\ last.kw = "Window" =>
              \A p \in 1..(FailPos(last.rest) - 1) :
                  WindowField(config.window, p) = ReadAs(p, last.rest[p + 1])
        /\ last.kw = "Font" =>
              \A p \in 1..(FailPos(last.rest) - 1) :
                  FontField(config.font_asset, p) = ReadAs(p, last.rest[p + 1])
        /\ last.kw \in EntityKeywords => config = last.cfg

\* A load that returns a window put together from two records: the second
\* Window record ends with the file before its height, so that caption and
\* width are its own and the height is the first record's.
C23_Witness ==
    /\ ppc = "returned"
    /\ file.kinds = <<"Window", "Window">>
    /\ file.defect = [line |-> 2, type |-> "Cut", pos |-> 3]
    /\ last.cfg.window = [caption |-> Word(1, "Window"), width |-> Val(1, 2),
                          height |-> Val(1, 3)]
    /\ config.window = [caption |-> Word(2, "Window"), width |-> Val(2, 2),
                        height |-> Val(1, 3)]

\* Entity i is moved by the simulation pass that starts in this state.
Moved(i) == entities[i].is_active /\ ui.simulate_enabled

\* C24: move preserves speed on each axis: a move step leaves each velocity
\* component as it was or negates it, and the position changes by exactly
\* the component the step leaves, on each axis; so, over any sequence of
\* move steps with no edit between them, a component is its initial value
\* or the negation of it.
C24_SpeedPreserved ==
    [][SimulationStep =>
          \A i \in DOMAIN entities :
              Moved(i) =>
                  /\ entities'[i].velocity.x \in {entities[i].velocity.x, -entities[i].velocity.x}
                  /\ entities'[i].velocity.y \in {entities[i].velocity.y, -entities[i].velocity.y}
                  /\ entities'[i].position.x - entities[i].position.x = entities'[i].velocity.x
                  /\ entities'[i].position.y - entities[i].position.y = entities'[i].velocity.y]_vars

\* The circle loaded at (1, 2) with velocity (-1, 1) after three move steps
\* and no edit: it has bounced off the left and the bottom edge, both
\* components are the negation of the initial ones.
C24_Witness ==
    /\ pc = "render"
    /\ frame = 2
    /\ entities # <<>>
    /\ config.entity_templates[1].position = [x |-> 1, y |-> 2]
    /\ config.entity_templates[1].velocity = [x |-> -1, y |-> 1]
    /\ entities[1].velocity = [x |-> 1, y |-> -1]
    /\ entities[1].position = [x |-> 4, y |-> 3]
    /\ entities[1].scale = 1

=============================================================================
